---- MODULE Spec2Model ----
(***************************************************************************)
(* Model of the tx-processor payment engine: Account (src/account.rs),     *)
(* TransactionRecord / StoredTransaction (src/transaction.rs) and          *)
(* PaymentEngine::process_transaction / get_accounts (src/engine.rs) and   *)
(* the loop of process_transactions (src/main.rs).                         *)
(*                                                                         *)
(* Decimal amounts are modelled as integers counted in a unit finer than   *)
(* 0.0001 (UnitsPerDp4 units make 0.0001); the engine only adds, subtracts *)
(* and compares them, and the output rounds them to 0.0001.                *)
(***************************************************************************)
EXTENDS Integers, Sequences, FiniteSets, TLC

(* ------------------------------ bounds --------------------------------- *)
(* Largest amount a record carries, and the number of records of the input. *)
MaxAmount == 1
MaxRecords == 7
(* The number of rows of an input file read from its first to its last row. *)
MaxRows == 3

(* Client ids (u16) and transaction ids (u32) are opaque keys: two of each  *)
(* give an owner and a stranger, and two history entries per engine.       *)
Clients == {1, 2}
TxIds == {1, 2}
(* Three transaction ids for inputs in which every Deposit and Withdrawal  *)
(* record carries an id of its own.                                        *)
FreshTxIds == {1, 2, 3}

NonNegAmounts == 0..MaxAmount
(* Decimal is signed and validate() does not look at the sign, so a record  *)
(* can carry a negative amount.                                            *)
Amounts == {0 - 1} \cup NonNegAmounts

(* Option<Decimal>: <<>> is None, <<a>> is Some(a).                         *)
None == <<>>
Some(a) == <<a>>
OptAmounts(A) == {None} \cup {Some(a) : a \in A}

TransactionType == {"Deposit", "Withdrawal", "Dispute", "Resolve", "Chargeback"}

TransactionRecord(A) ==
    [tx_type : TransactionType, client : Clients, tx : FreshTxIds, amount : OptAmounts(A)]

(* ------------------------------ Account -------------------------------- *)
Account_new == [available |-> 0, held |-> 0, locked |-> FALSE]

total(a) == a.available + a.held

deposit(a, amount) ==
    IF ~a.locked THEN [a EXCEPT !.available = @ + amount] ELSE a

(* withdraw debiting before it tests available.                            *)
withdraw_debits_first(a, amount) ==
    IF ~a.locked /\ a.available >= amount
    THEN [account |-> [a EXCEPT !.available = @ - amount], success |-> TRUE]
    ELSE [account |-> [a EXCEPT !.available = @ - amount], success |-> FALSE]

(* withdraw without the test of available.                                 *)
withdraw_unchecked(a, amount) ==
    IF ~a.locked
    THEN [account |-> [a EXCEPT !.available = @ - amount], success |-> TRUE]
    ELSE [account |-> a, success |-> FALSE]

(* withdraw returns the account after the call and the bool result.        *)
withdraw(a, amount) ==
    IF ~a.locked /\ a.available >= amount
    THEN [account |-> [a EXCEPT !.available = @ - amount], success |-> TRUE]
    ELSE [account |-> a, success |-> FALSE]

hold_funds(a, amount) ==
    IF ~a.locked /\ a.available >= amount
    THEN [a EXCEPT !.available = @ - amount, !.held = @ + amount]
    ELSE a

release_funds(a, amount) ==
    IF ~a.locked /\ a.held >= amount
    THEN [a EXCEPT !.held = @ - amount, !.available = @ + amount]
    ELSE a

(* chargeback refused on a locked account, like the other operations.      *)
chargeback_unless_locked(a, amount) ==
    IF ~a.locked /\ a.held >= amount
    THEN [a EXCEPT !.held = @ - amount, !.locked = TRUE]
    ELSE a

(* chargeback taking the amount out of available instead of held.         *)
chargeback_from_available(a, amount) ==
    IF a.held >= amount
    THEN [a EXCEPT !.available = @ - amount, !.locked = TRUE]
    ELSE a

chargeback(a, amount) ==
    IF a.held >= amount
    THEN [a EXCEPT !.held = @ - amount, !.locked = TRUE]
    ELSE a

(* Decimal::round_dp(4). Amounts are counted in units of which UnitsPerDp4  *)
(* make 0.0001, so that an amount can have more than four fractional       *)
(* digits; the result is the nearest multiple of 0.0001, a midpoint going  *)
(* to the even multiple (banker's rounding).                               *)
UnitsPerDp4 == 2

round_dp(x) ==
    LET q == x \div UnitsPerDp4
        r == x % UnitsPerDp4
    IN  IF 2 * r < UnitsPerDp4 THEN q * UnitsPerDp4
        ELSE IF 2 * r > UnitsPerDp4 THEN (q + 1) * UnitsPerDp4
        ELSE IF q % 2 = 0 THEN q * UnitsPerDp4
        ELSE (q + 1) * UnitsPerDp4

(* from_account taking total as the sum of the two rounded balances.       *)
from_account_sums_rounded(client, a) ==
    [client |-> client,
     available |-> round_dp(a.available),
     held |-> round_dp(a.held),
     total |-> round_dp(a.available) + round_dp(a.held),
     locked |-> a.locked]

AccountOutput_from_account(client, a) ==
    [client |-> client,
     available |-> round_dp(a.available),
     held |-> round_dp(a.held),
     total |-> round_dp(total(a)),
     locked |-> a.locked]

(* ------------------------- TransactionRecord --------------------------- *)
(* validate asking every kind of record for an amount.                     *)
validate_all_need_amount(record) == record.amount # None

validate(record) ==
    ~(record.tx_type \in {"Deposit", "Withdrawal"} /\ record.amount = None)

StoredTransaction(client, amount, tx_type) ==
    [client |-> client, amount |-> amount, tx_type |-> tx_type, disputed |-> FALSE]

(* ---------------------------- PaymentEngine ---------------------------- *)
(* An insert that keeps the value already stored under the key.            *)
insert_keeps_old(map, k, v) ==
    [x \in (DOMAIN map) \cup {k} |-> IF x \in DOMAIN map THEN map[x] ELSE v]

(* HashMap::insert: add the key or replace the value stored under it.      *)
insert(map, k, v) == [x \in (DOMAIN map) \cup {k} |-> IF x = k THEN v ELSE map[x]]

(* entry(client) followed by an unconditional insert of Account::new.      *)
entry_insert_always(accts, client) == insert(accts, client, Account_new)

(* accounts.entry(client).or_insert_with(Account::new)                      *)
entry_or_insert(accts, client) ==
    IF client \in DOMAIN accts THEN accts ELSE insert(accts, client, Account_new)

(* The engine after a call, with the call's Result ("Ok" or "Err").         *)
Engine(accts, txs, res) == [accounts |-> accts, transactions |-> txs, result |-> res]

PaymentEngine_new == Engine(<<>>, <<>>, "Ok")

(* The Dispute arm without the test of the record's client.                *)
dispute_arm_any_client(accts, txs, record) ==
    IF record.tx \in DOMAIN txs /\ ~txs[record.tx].disputed
    THEN Engine([accts EXCEPT ![record.client] = hold_funds(@, txs[record.tx].amount)],
                [txs EXCEPT ![record.tx].disputed = TRUE], "Ok")
    ELSE Engine(accts, txs, "Ok")

(* The Dispute arm without the test of the disputed flag.                  *)
dispute_arm_any_flag(accts, txs, record) ==
    IF record.tx \in DOMAIN txs /\ txs[record.tx].client = record.client
    THEN Engine([accts EXCEPT ![record.client] = hold_funds(@, txs[record.tx].amount)],
                [txs EXCEPT ![record.tx].disputed = TRUE], "Ok")
    ELSE Engine(accts, txs, "Ok")

(* The Dispute / Resolve / Chargeback arms share their shape: look the tx  *)
(* up, test client and disputed flag, flip the flag and call the account.  *)
dispute_arm(accts, txs, record) ==
    IF record.tx \in DOMAIN txs
       /\ txs[record.tx].client = record.client /\ ~txs[record.tx].disputed
    THEN Engine([accts EXCEPT ![record.client] = hold_funds(@, txs[record.tx].amount)],
                [txs EXCEPT ![record.tx].disputed = TRUE], "Ok")
    ELSE Engine(accts, txs, "Ok")

(* The Resolve arm without the test of the disputed flag.                  *)
resolve_arm_any_flag(accts, txs, record) ==
    IF record.tx \in DOMAIN txs /\ txs[record.tx].client = record.client
    THEN Engine([accts EXCEPT ![record.client] = release_funds(@, txs[record.tx].amount)],
                [txs EXCEPT ![record.tx].disputed = FALSE], "Ok")
    ELSE Engine(accts, txs, "Ok")

resolve_arm(accts, txs, record) ==
    IF record.tx \in DOMAIN txs
       /\ txs[record.tx].client = record.client /\ txs[record.tx].disputed
    THEN Engine([accts EXCEPT ![record.client] = release_funds(@, txs[record.tx].amount)],
                [txs EXCEPT ![record.tx].disputed = FALSE], "Ok")
    ELSE Engine(accts, txs, "Ok")

(* The Chargeback arm without the test of the record's client.             *)
chargeback_arm_any_client(accts, txs, record) ==
    IF record.tx \in DOMAIN txs /\ txs[record.tx].disputed
    THEN Engine([accts EXCEPT ![record.client] = chargeback(@, txs[record.tx].amount)],
                [txs EXCEPT ![record.tx].disputed = FALSE], "Ok")
    ELSE Engine(accts, txs, "Ok")

chargeback_arm(accts, txs, record) ==
    IF record.tx \in DOMAIN txs
       /\ txs[record.tx].client = record.client /\ txs[record.tx].disputed
    THEN Engine([accts EXCEPT ![record.client] = chargeback(@, txs[record.tx].amount)],
                [txs EXCEPT ![record.tx].disputed = FALSE], "Ok")
    ELSE Engine(accts, txs, "Ok")

(* The Deposit arm storing the history entry only when the account is not  *)
(* locked.                                                                 *)
deposit_arm_unless_locked(accts, txs, record) ==
    LET amount == record.amount[1]
    IN  Engine([accts EXCEPT ![record.client] = deposit(@, amount)],
               IF accts[record.client].locked THEN txs
               ELSE insert(txs, record.tx, StoredTransaction(record.client, amount, "Deposit")),
               "Ok")

deposit_arm(accts, txs, record) ==
    LET amount == record.amount[1]
    IN  Engine([accts EXCEPT ![record.client] = deposit(@, amount)],
               insert(txs, record.tx, StoredTransaction(record.client, amount, "Deposit")),
               "Ok")

(* The Withdrawal arm storing the history entry whatever withdraw returns. *)
withdrawal_arm_stores_always(accts, txs, record) ==
    LET amount == record.amount[1]
        w == withdraw(accts[record.client], amount)
    IN  Engine([accts EXCEPT ![record.client] = w.account],
               insert(txs, record.tx, StoredTransaction(record.client, amount, "Withdrawal")),
               "Ok")

withdrawal_arm(accts, txs, record) ==
    LET amount == record.amount[1]
        w == withdraw(accts[record.client], amount)
    IN  Engine([accts EXCEPT ![record.client] = w.account],
               IF w.success
               THEN insert(txs, record.tx, StoredTransaction(record.client, amount, "Withdrawal"))
               ELSE txs,
               "Ok")

(* process_transaction getting the account entry before it validates.     *)
process_transaction_entry_first(e, record) ==
    LET accts == entry_or_insert(e.accounts, record.client)
        txs == e.transactions
    IN  IF ~validate(record)
        THEN Engine(accts, txs, "Err")
        ELSE CASE record.tx_type = "Deposit" -> deposit_arm(accts, txs, record)
               [] record.tx_type = "Withdrawal" -> withdrawal_arm(accts, txs, record)
               [] record.tx_type = "Dispute" -> dispute_arm(accts, txs, record)
               [] record.tx_type = "Resolve" -> resolve_arm(accts, txs, record)
               [] record.tx_type = "Chargeback" -> chargeback_arm(accts, txs, record)

(* process_transaction on the engine state e; the result is the engine     *)
(* after the call together with Ok / Err.                                  *)
process_transaction(e, record) ==
    IF ~validate(record)
    THEN Engine(e.accounts, e.transactions, "Err")
    ELSE LET accts == entry_or_insert(e.accounts, record.client)
             txs == e.transactions
         IN  CASE record.tx_type = "Deposit" -> deposit_arm(accts, txs, record)
               [] record.tx_type = "Withdrawal" -> withdrawal_arm(accts, txs, record)
               [] record.tx_type = "Dispute" -> dispute_arm(accts, txs, record)
               [] record.tx_type = "Resolve" -> resolve_arm(accts, txs, record)
               [] record.tx_type = "Chargeback" -> chargeback_arm(accts, txs, record)

(* The rows collected from an iteration over the entries of accts.    *)
(* HashMap iterates in an order of its own; the rows are listed here by    *)
(* ascending client id.                                                    *)
RECURSIVE iter_map_collect(_, _)
iter_map_collect(accts, keys) ==
    IF keys = {} THEN <<>>
    ELSE LET c == CHOOSE x \in keys : \A y \in keys : x <= y
         IN  <<AccountOutput_from_account(c, accts[c])>>
               \o iter_map_collect(accts, keys \ {c})

(* get_accounts leaving the locked accounts out.                           *)
get_accounts_unlocked(e) ==
    iter_map_collect(e.accounts, {c \in DOMAIN e.accounts : ~e.accounts[c].locked})

get_accounts(e) == iter_map_collect(e.accounts, DOMAIN e.accounts)

(* ------------------------------- state --------------------------------- *)
(* accounts, transactions: the two maps of PaymentEngine.                  *)
(* n: how many rows the loop of process_transactions has read.             *)
(* file: the rows the csv reader yields, in order (the run of the whole    *)
(*       of process_transactions reads them from file; the other           *)
(*       specifications draw each record when it is read and leave file    *)
(*       empty).                                                           *)
(* output: None until process_transactions has written the account rows,   *)
(*       then Some of the rows written.                                    *)
(* History variables, which the program does not hold:                     *)
(*   charged  - ids whose stored transaction has had held funds removed by  *)
(*              a Chargeback record naming it;                             *)
(*   preLock  - ids whose stored transaction is under a dispute that was   *)
(*              opened while the owning account was not locked;            *)
(*   deposits, withdrawals - per client the sum of the amounts deposited   *)
(*              and of the amounts successfully withdrawn (kept only by    *)
(*              the specification of deposit / withdrawal inputs);         *)
(*   issued   - how many Deposit and Withdrawal records were read (kept    *)
(*              only by the specification of inputs with ids of their      *)
(*              own, where the next such record carries id issued + 1);    *)
(*   seen     - the client ids of the records that passed validate();      *)
(*   shard    - a second engine, fed only the records of ShardClients in   *)
(*              the order they are read (kept only by the specification    *)
(*              of the sharded run);                                       *)
(*   clash    - a Deposit or successful Withdrawal of a client outside     *)
(*              ShardClients has replaced an entry the shard has stored    *)
(*              (kept only by the specification of the sharded run).       *)
VARIABLES accounts, transactions, n, charged, preLock, deposits, withdrawals, issued,
          seen, shard, clash, file, output

vars == <<accounts, transactions, n, charged, preLock, deposits, withdrawals, issued,
          seen, shard, clash, file, output>>

engine == Engine(accounts, transactions, "Ok")

Zero == [c \in Clients |-> 0]

(* The clients whose records one shard of a run split by client id gets.   *)
ShardClients == {1}

(* The state after PaymentEngine::new(), before the first row is read.     *)
InitEngine ==
    /\ accounts = PaymentEngine_new.accounts
    /\ transactions = PaymentEngine_new.transactions
    /\ n = 0
    /\ charged = {}
    /\ preLock = {}
    /\ deposits = Zero
    /\ withdrawals = Zero
    /\ issued = 0
    /\ seen = {}
    /\ shard = PaymentEngine_new
    /\ clash = FALSE
    /\ output = None

Init == InitEngine /\ file = <<>>

(* Fields of a client's account, those of Account::new when the client has *)
(* no account yet.                                                         *)
AccountOf(accts, c) == IF c \in DOMAIN accts THEN accts[c] ELSE Account_new
HeldOf(accts, c) == AccountOf(accts, c).held
AvailableOf(accts, c) == AccountOf(accts, c).available
LockedOf(accts, c) == AccountOf(accts, c).locked

(* The record's Withdrawal arm gets true from Account::withdraw.           *)
Succeeds(e, record) ==
    /\ record.tx_type = "Withdrawal"
    /\ validate(record)
    /\ withdraw(AccountOf(e.accounts, record.client), record.amount[1]).success

(* The record creates or replaces the history entry of its tx id.          *)
Stores(e, record) ==
    \/ record.tx_type = "Deposit" /\ validate(record)
    \/ Succeeds(e, record)

(* The record's Dispute / Resolve / Chargeback arm passes its guard.       *)
Matches(e, record, flag) ==
    /\ record.tx \in DOMAIN e.transactions
    /\ e.transactions[record.tx].client = record.client
    /\ e.transactions[record.tx].disputed = flag

(* One iteration of the loop of process_transactions: one call of          *)
(* process_transaction with the given record. sums says whether the        *)
(* deposit / withdrawal sums are kept, fresh whether issued is, alone      *)
(* whether the shard engine is run next to the engine; that run is         *)
(* followed up to the first record that replaces an entry of the shard.    *)
Process(record, sums, fresh, alone) ==
    LET e == process_transaction(engine, record)
        c == record.client
        t == record.tx
        k == record.tx_type
    IN  /\ ~clash
        /\ n' = n + 1
        /\ accounts' = e.accounts
        /\ transactions' = e.transactions
        /\ charged' =
             IF Stores(engine, record) THEN charged \ {t}
             ELSE IF k = "Chargeback" /\ HeldOf(e.accounts, c) < HeldOf(accounts, c)
                  THEN charged \cup {t}
                  ELSE charged
        /\ preLock' =
             IF Stores(engine, record) THEN preLock \ {t}
             ELSE IF k = "Dispute" /\ Matches(engine, record, FALSE)
                  THEN (IF LockedOf(accounts, c) THEN preLock ELSE preLock \cup {t})
             ELSE IF k \in {"Resolve", "Chargeback"} /\ Matches(engine, record, TRUE)
                  THEN preLock \ {t}
                  ELSE preLock
        /\ deposits' =
             IF sums /\ k = "Deposit" /\ validate(record)
             THEN [deposits EXCEPT ![c] = @ + record.amount[1]]
             ELSE deposits
        /\ withdrawals' =
             IF sums /\ Succeeds(engine, record)
             THEN [withdrawals EXCEPT ![c] = @ + record.amount[1]]
             ELSE withdrawals
        /\ issued' =
             IF fresh /\ k \in {"Deposit", "Withdrawal"} THEN issued + 1 ELSE issued
        /\ seen' = IF validate(record) THEN seen \cup {c} ELSE seen
        /\ shard' =
             IF alone /\ c \in ShardClients
             THEN LET s == process_transaction(shard, record)
                  IN  Engine(s.accounts, s.transactions, "Ok")
             ELSE shard
        /\ clash' =
             \/ clash
             \/ /\ alone
                /\ c \notin ShardClients
                /\ Stores(engine, record)
                /\ t \in DOMAIN shard.transactions
        /\ UNCHANGED <<file, output>>

Rec(kind, c, t, a) == [tx_type |-> kind, client |-> c, tx |-> t, amount |-> a]

(* Dispute, Resolve and Chargeback never read the amount field: one        *)
(* present value next to None is enough to exercise that.                  *)
IgnoredAmounts == {None, Some(MaxAmount)}

(* The reader yields another record while fewer than MaxRecords were read. *)
MoreRecords == n < MaxRecords

(* The five kinds of record, for clients in C, tx ids in X and amounts in  *)
(* A.                                                                      *)
Deposit(C, X, A, sums, fresh, alone) ==
    \E c \in C, t \in X, a \in OptAmounts(A) :
        MoreRecords /\ Process(Rec("Deposit", c, t, a), sums, fresh, alone)

Withdrawal(C, X, A, sums, fresh, alone) ==
    \E c \in C, t \in X, a \in OptAmounts(A) :
        MoreRecords /\ Process(Rec("Withdrawal", c, t, a), sums, fresh, alone)

Dispute(C, X, alone) ==
    \E c \in C, t \in X, a \in IgnoredAmounts :
        MoreRecords /\ Process(Rec("Dispute", c, t, a), FALSE, FALSE, alone)

Resolve(C, X, alone) ==
    \E c \in C, t \in X, a \in IgnoredAmounts :
        MoreRecords /\ Process(Rec("Resolve", c, t, a), FALSE, FALSE, alone)

Chargeback(C, X, alone) ==
    \E c \in C, t \in X, a \in IgnoredAmounts :
        MoreRecords /\ Process(Rec("Chargeback", c, t, a), FALSE, FALSE, alone)

(* The engine fed records of both clients whose amount, when present, is   *)
(* >= 0, as the contract of Account asks; a tx id can come again in a      *)
(* later Deposit or Withdrawal record.                                     *)
Next ==
    \/ Deposit(Clients, TxIds, NonNegAmounts, FALSE, FALSE, FALSE)
    \/ Withdrawal(Clients, TxIds, NonNegAmounts, FALSE, FALSE, FALSE)
    \/ Dispute(Clients, TxIds, FALSE)
    \/ Resolve(Clients, TxIds, FALSE)
    \/ Chargeback(Clients, TxIds, FALSE)

Spec == Init /\ [][Next]_vars

(* The same, with a tx id of its own in every Deposit and Withdrawal       *)
(* record: the ids are handed out in order.                                *)
NextId == {issued + 1} \cap FreshTxIds

NextFresh ==
    \/ Deposit(Clients, NextId, NonNegAmounts, FALSE, TRUE, FALSE)
    \/ Withdrawal(Clients, NextId, NonNegAmounts, FALSE, TRUE, FALSE)
    \/ Dispute(Clients, FreshTxIds, FALSE)
    \/ Resolve(Clients, FreshTxIds, FALSE)
    \/ Chargeback(Clients, FreshTxIds, FALSE)

SpecFresh == Init /\ [][NextFresh]_vars

(* The engine fed records of one client with amounts of either sign.       *)
NextSigned ==
    \/ Deposit({1}, TxIds, Amounts, FALSE, FALSE, FALSE)
    \/ Withdrawal({1}, TxIds, Amounts, FALSE, FALSE, FALSE)
    \/ Dispute({1}, TxIds, FALSE)
    \/ Resolve({1}, TxIds, FALSE)
    \/ Chargeback({1}, TxIds, FALSE)

SpecSigned == Init /\ [][NextSigned]_vars

(* The engine fed records of both clients, tx ids coming again at will,    *)
(* next to the shard engine that gets the records of ShardClients only.    *)
NextShard ==
    \/ Deposit(Clients, TxIds, NonNegAmounts, FALSE, FALSE, TRUE)
    \/ Withdrawal(Clients, TxIds, NonNegAmounts, FALSE, FALSE, TRUE)
    \/ Dispute(Clients, TxIds, TRUE)
    \/ Resolve(Clients, TxIds, TRUE)
    \/ Chargeback(Clients, TxIds, TRUE)

SpecShard == Init /\ [][NextShard]_vars

(* The engine fed only Deposit and Withdrawal records, with the sums of    *)
(* deposits and successful withdrawals kept.                               *)
NextDW ==
    \/ Deposit(Clients, TxIds, NonNegAmounts, TRUE, FALSE, FALSE)
    \/ Withdrawal(Clients, TxIds, NonNegAmounts, TRUE, FALSE, FALSE)

SpecDW == Init /\ [][NextDW]_vars

(* ----------------------- process_transactions -------------------------- *)
(* What reader.deserialize() yields for a row: Err for a row that does not *)
(* parse, Ok(record) for one that does.                                    *)
ParseError == <<>>
Parsed(record) == <<record>>

(* The rows of the input files: a row that does not parse, a Deposit       *)
(* without amount, and records that reach each of the five arms.           *)
Rows ==
    {ParseError, Parsed(Rec("Deposit", 1, 1, None))}
      \cup {Parsed(Rec("Deposit", 1, t, Some(a))) : t \in TxIds, a \in {1, MaxAmount}}
      \cup {Parsed(Rec("Withdrawal", 1, 2, Some(MaxAmount)))}
      \cup {Parsed(Rec(k, 1, 1, None)) : k \in {"Dispute", "Resolve", "Chargeback"}}

(* The input files: every sequence of at most MaxRows rows.                *)
RECURSIVE Files(_)
Files(len) ==
    IF len = 0 THEN {<<>>}
    ELSE LET shorter == Files(len - 1)
         IN  shorter \cup {Append(f, row) : f \in shorter, row \in Rows}

InitRun == InitEngine /\ file \in Files(MaxRows)

(* The loop has not reached the end of the file.                           *)
MoreRows == output = None /\ n < Len(file)

(* The Ok(record) arm returning the Err of process_transaction to its      *)
(* caller: the run ends at a record that fails validation.                 *)
ReadRecord_propagates ==
    /\ MoreRows
    /\ file[n + 1] # ParseError
    /\ validate(file[n + 1][1])
    /\ Process(file[n + 1][1], FALSE, FALSE, FALSE)

(* Ok(record): the record goes to process_transaction; an Err it returns   *)
(* is printed as a warning and the loop goes on.                           *)
ReadRecord ==
    /\ MoreRows
    /\ file[n + 1] # ParseError
    /\ Process(file[n + 1][1], FALSE, FALSE, FALSE)

(* Err(_): the row is ignored.                                             *)
SkipRow ==
    /\ MoreRows
    /\ file[n + 1] = ParseError
    /\ n' = n + 1
    /\ UNCHANGED <<accounts, transactions, charged, preLock, deposits, withdrawals,
                   issued, seen, shard, clash, file, output>>

(* After the loop: every row of get_accounts is serialized to stdout.      *)
WriteAccounts ==
    /\ output = None
    /\ n = Len(file)
    /\ output' = Some(get_accounts(engine))
    /\ UNCHANGED <<accounts, transactions, n, charged, preLock, deposits, withdrawals,
                   issued, seen, shard, clash, file>>

NextRun == ReadRecord \/ SkipRow \/ WriteAccounts

(* process_transactions on an opened file; the program keeps taking steps  *)
(* until it returns.                                                       *)
SpecRun == InitRun /\ [][NextRun]_vars /\ WF_vars(NextRun)

TypeOK ==
    /\ DOMAIN accounts \subseteq Clients
    /\ DOMAIN transactions \subseteq FreshTxIds
    /\ n \in 0..MaxRecords
    /\ charged \subseteq FreshTxIds
    /\ preLock \subseteq FreshTxIds
    /\ issued \in 0..MaxRecords
    /\ seen \subseteq Clients
    /\ DOMAIN shard.accounts \subseteq ShardClients
    /\ DOMAIN shard.transactions \subseteq FreshTxIds
    /\ clash \in BOOLEAN
    /\ Len(file) <= MaxRows
    /\ \A i \in DOMAIN file : file[i] \in Rows
    /\ Len(output) <= 1

(* ------------------------------ claims --------------------------------- *)
(* The engine after one more call of process_transaction from the current  *)
(* state.                                                                  *)
After(record) == process_transaction(engine, record)

AllRecords == TransactionRecord(Amounts)

Owner(t) == transactions[t].client

(* C1: under records with non-negative amounts every account has          *)
(* available >= 0 and held >= 0 in every reachable state.                  *)
C1_NonNegativeBalances ==
    \A c \in DOMAIN accounts : accounts[c].available >= 0 /\ accounts[c].held >= 0

(* A locked account that still holds funds of a second dispute.            *)
C1_Witness ==
    \E c \in DOMAIN accounts :
        accounts[c].locked /\ accounts[c].held > 0 /\ charged # {}

(* C2: lock is irreversible: an account that is locked before a record is  *)
(* applied is still there and locked after it.                             *)
C2_LockIrreversible ==
    [][\A c \in DOMAIN accounts :
          accounts[c].locked => (c \in DOMAIN accounts' /\ accounts'[c].locked)]_vars

(* A locked account one of whose transactions was disputed after the lock. *)
C2_Witness ==
    \E t \in DOMAIN transactions :
        /\ transactions[t].disputed
        /\ t \notin preLock
        /\ LockedOf(accounts, Owner(t))

(* C3: on a locked account Deposit, Withdrawal, Dispute and Resolve leave  *)
(* available and held unchanged, available never changes, and a           *)
(* Chargeback can only decrease held.                                      *)
C3_LockedFrame ==
    \A r \in AllRecords :
        LockedOf(accounts, r.client) =>
            LET a == AccountOf(accounts, r.client)
                b == AccountOf(After(r).accounts, r.client)
            IN  /\ b.available = a.available
                /\ r.tx_type # "Chargeback" => b.held = a.held
                /\ r.tx_type = "Chargeback" => b.held <= a.held

SameAccounts(a1, a2) == \A c \in Clients : AccountOf(a1, c) = AccountOf(a2, c)

(* C5: for a stored, undisputed transaction, Dispute followed at once by   *)
(* Resolve, both by the owning client, leaves the account's available,     *)
(* held, total and locked as before the Dispute.                           *)
C5_DisputeResolveRoundTrip ==
    \A c \in Clients, t \in FreshTxIds :
        LET d == Rec("Dispute", c, t, None)
        IN  Matches(engine, d, FALSE) =>
              LET e1 == After(d)
                  e2 == process_transaction(e1, Rec("Resolve", c, t, None))
              IN  /\ e2.accounts[c] = accounts[c]
                  /\ total(e2.accounts[c]) = total(accounts[c])

(* C6: once a Chargeback naming a stored transaction has removed funds     *)
(* from held, no further Chargeback naming it removes funds from held.     *)
C6_NoSecondChargeback ==
    \A t \in charged, c \in Clients :
        HeldOf(After(Rec("Chargeback", c, t, None)).accounts, c) >= HeldOf(accounts, c)

C8_DisputeIdempotent ==
    \A c \in Clients, t \in DOMAIN transactions :
        transactions[t].disputed =>
            LET e == After(Rec("Dispute", c, t, None))
            IN  /\ e.transactions = transactions
                /\ SameAccounts(e.accounts, accounts)

(* A dispute holds its amount, and the owner has enough available for a    *)
(* second hold of the same amount.                                         *)
C8_Witness ==
    \E t \in preLock :
        /\ transactions[t].amount > 0
        /\ accounts[Owner(t)].held = transactions[t].amount
        /\ accounts[Owner(t)].available >= transactions[t].amount

(* C9: under Deposit and Withdrawal records only, each client's total is   *)
(* the sum of its deposits minus the sum of its successful withdrawals,    *)
(* and its held is 0.                                                      *)
C9_TotalIsDepositsMinusWithdrawals ==
    \A c \in Clients :
        /\ total(AccountOf(accounts, c)) = deposits[c] - withdrawals[c]
        /\ HeldOf(accounts, c) = 0

(* A client that has deposited, withdrawn part of it, and kept the rest.   *)
C9_Witness ==
    \E c \in DOMAIN accounts :
        withdrawals[c] > 0 /\ deposits[c] > withdrawals[c] /\ n = MaxRecords

(* Withdrawal records of client c, tx t, asking more than c's available.   *)
Overdrafts(c, t) ==
    {Rec("Withdrawal", c, t, Some(AvailableOf(accounts, c) + k)) : k \in 1..MaxAmount}

(* A Dispute naming t, by any client, from engine e changes nothing.       *)
DisputeIsNoOp(e, t) ==
    \A c \in Clients :
        LET e2 == process_transaction(e, Rec("Dispute", c, t, None))
        IN  e2.transactions = e.transactions /\ SameAccounts(e2.accounts, e.accounts)

(* C10 as stated: a Withdrawal of more than available changes no balance   *)
(* and stores nothing, and a Dispute naming its tx id afterwards holds no   *)
(* funds and marks nothing as disputed.                                    *)
C10_FailedWithdrawalNeverDisputable ==
    \A c \in Clients, t \in FreshTxIds : \A w \in Overdrafts(c, t) :
        /\ After(w).transactions = transactions
        /\ SameAccounts(After(w).accounts, accounts)
        /\ DisputeIsNoOp(After(w), t)

(* C10 amended: the Dispute part holds while no history entry is stored    *)
(* under that tx id.                                                       *)
C10_FailedWithdrawalLeavesNoEntry ==
    /\ \A c \in Clients, t \in FreshTxIds : \A w \in Overdrafts(c, t) :
          /\ After(w).transactions = transactions
          /\ SameAccounts(After(w).accounts, accounts)
          /\ t \notin DOMAIN transactions => DisputeIsNoOp(After(w), t)
    /\ \A t \in FreshTxIds \ DOMAIN transactions : DisputeIsNoOp(engine, t)

(* A funded, unlocked account and a tx id with no history entry: a         *)
(* Withdrawal of more than available under that id fails here.             *)
C10_Witness ==
    \E c \in DOMAIN accounts, t \in TxIds :
        /\ t \notin DOMAIN transactions
        /\ accounts[c].available > 0
        /\ ~accounts[c].locked
        /\ n > 1

(* C11: process_transaction returns Err exactly for a Deposit or           *)
(* Withdrawal record without amount; Dispute, Resolve and Chargeback       *)
(* records return Ok with or without amount, whatever tx they name.        *)
C11_ErrIffMissingAmount ==
    \A r \in AllRecords :
        LET result == After(r).result
        IN  /\ result = "Err" <=>
                  (r.tx_type \in {"Deposit", "Withdrawal"} /\ r.amount = None)
            /\ r.tx_type \in {"Dispute", "Resolve", "Chargeback"} => result = "Ok"

(* Records were read and none of them passed validate(): each call         *)
(* returned Err.                                                           *)
C11_Witness == n > 1 /\ seen = {}

(* The Dispute, Resolve and Chargeback records that take no branch in the  *)
(* current state: they name a tx that is not stored, that another client   *)
(* owns, or whose disputed flag is not the one their arm asks for.         *)
Unmatched ==
    {r \in AllRecords :
        /\ r.tx_type \in {"Dispute", "Resolve", "Chargeback"}
        /\ ~Matches(engine, r, r.tx_type # "Dispute")}

(* C12 as stated: such a record leaves the whole engine as it was: the set *)
(* of known accounts, every account and every stored transaction.          *)
C12_UnmatchedLeavesEngineUntouched ==
    \A r \in Unmatched :
        /\ After(r).accounts = accounts
        /\ After(r).transactions = transactions

(* C12 amended: such a record leaves every stored transaction and every    *)
(* existing account as they were; the one thing it can do is create the    *)
(* account of its client, with Account::new, when the client has none.     *)
C12_UnmatchedOnlyCreatesAccount ==
    \A r \in Unmatched :
        LET e == After(r)
        IN  /\ e.transactions = transactions
            /\ DOMAIN e.accounts = DOMAIN accounts \cup {r.client}
            /\ \A c \in DOMAIN accounts : e.accounts[c] = accounts[c]
            /\ r.client \notin DOMAIN accounts => e.accounts[r.client] = Account_new

(* Every Deposit / Withdrawal record read has stored its entry, one of     *)
(* them is disputed with funds held, and a client that owns none of them   *)
(* has an account: its records took no branch.                             *)
C12_Witness ==
    /\ issued = Cardinality(DOMAIN transactions)
    /\ \E t \in DOMAIN transactions :
          transactions[t].disputed /\ HeldOf(accounts, Owner(t)) > 0
    /\ \E c \in DOMAIN accounts :
          /\ accounts[c] = Account_new
          /\ \A t \in DOMAIN transactions : Owner(t) # c

(* C13: once a Chargeback has been applied to a disputed transaction, the  *)
(* transaction's disputed flag is false and stays false, and every         *)
(* Dispute, Resolve or Chargeback naming its id changes no account and no  *)
(* stored transaction.                                                     *)
C13_FinalizedIsTerminal ==
    \A t \in charged :
        /\ ~transactions[t].disputed
        /\ \A c \in Clients, k \in {"Dispute", "Resolve", "Chargeback"} :
              LET e == After(Rec(k, c, t, None))
              IN  e.transactions = transactions /\ SameAccounts(e.accounts, accounts)

(* The account of a client as process_transaction leaves it when the       *)
(* valid record r is the first one to name the client: the record's arm    *)
(* applied to an account that holds nothing and is unlocked.               *)
FirstSeen(r) ==
    LET new == [available |-> 0, held |-> 0, locked |-> FALSE]
    IN  CASE r.tx_type = "Deposit" -> deposit(new, r.amount[1])
          [] r.tx_type = "Withdrawal" -> withdraw(new, r.amount[1]).account
          [] OTHER -> new

(* The rows of get_accounts that carry client id c.                        *)
RowsOf(c) ==
    LET rows == get_accounts(engine)
    IN  {i \in DOMAIN rows : rows[i].client = c}

(* C14: the engine knows exactly the client ids of the records that passed *)
(* validate(); an account is created with available 0, held 0 and unlocked *)
(* by the first valid record naming its client, and no record removes an   *)
(* account; get_accounts returns one row per known client and no other.    *)
C14_AccountsAreClientsSeen ==
    /\ DOMAIN accounts = seen
    /\ \A r \in AllRecords :
          LET accts == After(r).accounts
          IN  /\ DOMAIN accounts \subseteq DOMAIN accts
              /\ (validate(r) /\ r.client \notin seen) => accts[r.client] = FirstSeen(r)
    /\ Len(get_accounts(engine)) = Cardinality(seen)
    /\ \A c \in seen : Cardinality(RowsOf(c)) = 1

(* Every client is known, one with a locked account and one that has only  *)
(* ever been named by records that changed nothing.                        *)
C14_Witness ==
    /\ seen = Clients
    /\ \E c \in seen : accounts[c].locked
    /\ \E c \in seen :
          accounts[c] = Account_new /\ \A t \in DOMAIN transactions : Owner(t) # c

(* C15 as stated: the account of a client is the same after the whole      *)
(* input as after the input's records of that client alone, so two inputs  *)
(* with the same records of the client leave it the same available, held,  *)
(* total and locked.                                                       *)
C15_ClientsIndependent ==
    \A r \in AllRecords :
        r.client \in ShardClients =>
            LET a == AccountOf(After(r).accounts, r.client)
                b == AccountOf(process_transaction(shard, r).accounts, r.client)
            IN  a = b /\ total(a) = total(b)

(* C15 amended: the same, as long as no Deposit or successful Withdrawal   *)
(* of another client has carried a tx id under which a record of the       *)
(* client has stored an entry.                                             *)
C15_IndependentUnlessIdShared ==
    ~clash =>
        /\ \A r \in AllRecords :
              r.client \in ShardClients =>
                  LET a == AccountOf(After(r).accounts, r.client)
                      b == AccountOf(process_transaction(shard, r).accounts, r.client)
                  IN  a = b /\ total(a) = total(b)
        /\ \A c \in ShardClients :
              AccountOf(accounts, c) = AccountOf(shard.accounts, c)
        /\ \A t \in DOMAIN shard.transactions :
              t \in DOMAIN transactions /\ transactions[t] = shard.transactions[t]

(* The other client has deposited, disputed and been charged back, and the *)
(* client of the shard holds a disputed deposit next to it, no tx id       *)
(* having been shared.                                                     *)
C15_Witness ==
    /\ ~clash
    /\ \E c \in Clients \ ShardClients : LockedOf(accounts, c) /\ charged # {}
    /\ \E t \in DOMAIN shard.transactions :
          /\ shard.transactions[t].disputed
          /\ HeldOf(shard.accounts, shard.transactions[t].client) > 0

(* Client, amount and kind of a history entry.                             *)
Fixed(tx) == <<tx.client, tx.amount, tx.tx_type>>

(* C16 as stated: a stored tx id stays stored and no record changes its    *)
(* entry's client, amount or kind.                                         *)
C16_StoredAtMostOnce ==
    \A r \in AllRecords :
        LET txs == After(r).transactions
        IN  \A t \in DOMAIN transactions :
                t \in DOMAIN txs /\ Fixed(txs[t]) = Fixed(transactions[t])

(* C16 amended: a stored tx id stays stored; a Deposit with an amount or a *)
(* successful Withdrawal carrying the id replaces the entry by its own,    *)
(* undisputed; every other record leaves client, amount and kind alone,    *)
(* and a record naming another id leaves the whole entry alone.            *)
C16_ReplacedOnlyByStoringRecord ==
    \A r \in AllRecords :
        LET txs == After(r).transactions
        IN  \A t \in DOMAIN transactions :
                /\ t \in DOMAIN txs
                /\ IF Stores(engine, r) /\ r.tx = t
                   THEN txs[t] = [client |-> r.client, amount |-> r.amount[1],
                                  tx_type |-> r.tx_type, disputed |-> FALSE]
                   ELSE Fixed(txs[t]) = Fixed(transactions[t])
                /\ r.tx # t => txs[t] = transactions[t]

(* A disputed entry with funds held next to an undisputed one: a Deposit   *)
(* carrying the id of either would replace it.                             *)
C16_Witness ==
    \E t, u \in DOMAIN transactions :
        /\ ~transactions[u].disputed
        /\ transactions[t].disputed
        /\ transactions[t].amount > 0
        /\ HeldOf(accounts, Owner(t)) >= transactions[t].amount

(* C17: a call of process_transaction that returns Err leaves the engine   *)
(* as it was: the same accounts, none created, and the same history.       *)
C17_ErrLeavesEngineUnchanged ==
    \A r \in AllRecords :
        LET e == After(r)
        IN  e.result = "Err" => (e.accounts = accounts /\ e.transactions = transactions)

(* Records were processed and the engine is still empty: each of them was  *)
(* rejected.                                                               *)
C17_Witness == n > 0 /\ accounts = <<>> /\ transactions = <<>>

(* C18: a Deposit with an amount stores {client, amount, Deposit, not      *)
(* disputed} under its tx id, on a locked account too; a Withdrawal with   *)
(* an amount stores its entry when Account::withdraw returns true and      *)
(* leaves the history alone when it returns false.                         *)
C18_HistoryEntryStored ==
    \A r \in AllRecords :
        r.amount # None =>
            LET entry == [client |-> r.client, amount |-> r.amount[1],
                          tx_type |-> r.tx_type, disputed |-> FALSE]
                txs == After(r).transactions
            IN  /\ r.tx_type = "Deposit" =>
                      r.tx \in DOMAIN txs /\ txs[r.tx] = entry
                /\ r.tx_type = "Withdrawal" =>
                      IF withdraw(AccountOf(accounts, r.client), r.amount[1]).success
                      THEN r.tx \in DOMAIN txs /\ txs[r.tx] = entry
                      ELSE txs = transactions

(* Two deposits of MaxAmount by one client are stored, the first was       *)
(* charged back and the account holds nothing: the second deposit came     *)
(* after the lock and was stored without being credited.                   *)
C18_Witness ==
    \E c \in DOMAIN accounts :
        /\ accounts[c].locked
        /\ total(accounts[c]) = 0
        /\ issued = Cardinality(DOMAIN transactions)
        /\ Cardinality(DOMAIN transactions) > 1
        /\ \A t \in DOMAIN transactions :
              transactions[t] = StoredTransaction(c, MaxAmount, "Deposit")
        /\ Cardinality(charged) = 1

(* The amounts process_transaction hands to the operations of Account for  *)
(* the record: its own for a Deposit or Withdrawal, the stored one for a   *)
(* Dispute, Resolve or Chargeback that passes its guard.                   *)
Applied(e, r) ==
    IF ~validate(r) THEN {}
    ELSE IF r.tx_type \in {"Deposit", "Withdrawal"} THEN {r.amount[1]}
    ELSE IF Matches(e, r, r.tx_type # "Dispute") THEN {e.transactions[r.tx].amount}
    ELSE {}

(* C19: every amount process_transaction passes to deposit, withdraw,      *)
(* hold_funds, release_funds or chargeback is >= 0, for every record that  *)
(* passes validate().                                                      *)
C19_OnlyNonNegativeAmountsApplied ==
    \A r \in AllRecords : \A a \in Applied(engine, r) : a >= 0

(* C20: a Dispute, Resolve or Chargeback record of a client other than the *)
(* stored transaction's client changes neither the transaction's disputed  *)
(* flag nor the owner's available, held and locked.                        *)
C20_StrangerChangesNothing ==
    \A t \in DOMAIN transactions : \A c \in Clients \ {Owner(t)} :
        \A k \in {"Dispute", "Resolve", "Chargeback"}, a \in IgnoredAmounts :
            LET e == After(Rec(k, c, t, a))
            IN  /\ e.transactions[t].disputed = transactions[t].disputed
                /\ e.accounts[Owner(t)] = accounts[Owner(t)]

(* A disputed transaction whose held funds a Chargeback of the owner would *)
(* take, while the other client has an account with funds of its own.      *)
C20_Witness ==
    \E t \in DOMAIN transactions, c \in DOMAIN accounts :
        /\ c # Owner(t)
        /\ accounts[c].available > 0
        /\ transactions[t].disputed
        /\ transactions[t].amount > 0
        /\ accounts[Owner(t)].held >= transactions[t].amount
        /\ ~accounts[Owner(t)].locked

(* The sum of the stored amounts of the transactions in ids.               *)
RECURSIVE SumOfAmounts(_, _)
SumOfAmounts(txs, ids) ==
    IF ids = {} THEN 0
    ELSE LET t == CHOOSE x \in ids : TRUE
         IN  txs[t].amount + SumOfAmounts(txs, ids \ {t})

(* The stored transactions of client c whose disputed flag is true.        *)
DisputedOf(c) ==
    {t \in DOMAIN transactions : transactions[t].client = c /\ transactions[t].disputed}

(* C21: in every reachable state each account's held is the sum of the     *)
(* stored amounts of its client's disputed transactions; held > 0 implies  *)
(* that some transaction of the client is disputed.                        *)
C21_HeldIsSumOfDisputed ==
    \A c \in Clients :
        /\ HeldOf(accounts, c) = SumOfAmounts(transactions, DisputedOf(c))
        /\ HeldOf(accounts, c) > 0 => DisputedOf(c) # {}

(* C22: a Dispute or Resolve record changes no account's total; a record   *)
(* changes the total of an account only if it is a Deposit of the          *)
(* account's client on the unlocked account, a successful Withdrawal of    *)
(* the client, or a Chargeback of the client that takes funds out of held. *)
C22_TotalChangesOnlyByDepositWithdrawalChargeback ==
    \A r \in AllRecords :
        LET accts == After(r).accounts
        IN  \A c \in Clients :
                LET a == AccountOf(accounts, c)
                    b == AccountOf(accts, c)
                IN  /\ r.tx_type \in {"Dispute", "Resolve"} => total(b) = total(a)
                    /\ total(b) # total(a) =>
                          /\ c = r.client
                          /\ \/ r.tx_type = "Deposit" /\ ~a.locked
                             \/ Succeeds(engine, r)
                             \/ r.tx_type = "Chargeback" /\ b.held < a.held

(* The engine after the rows were applied one by one in their order, a row *)
(* that does not parse and a record that fails validation leaving it as    *)
(* it was.                                                                 *)
RECURSIVE EngineAfter(_)
EngineAfter(rows) ==
    IF rows = <<>> THEN PaymentEngine_new
    ELSE LET e == EngineAfter(SubSeq(rows, 1, Len(rows) - 1))
             last == rows[Len(rows)]
         IN  IF last = ParseError \/ ~validate(last[1]) THEN e
             ELSE process_transaction(e, last[1])

(* C23: for every input file the run reaches its end and writes the        *)
(* account rows; the rows are read in order, and after n of them the       *)
(* engine is the one that the records among them which parse and pass      *)
(* validation lead to, whatever rows failed before them; the rows written  *)
(* are those of the engine after the whole file.                           *)
C23_BatchNeverHalts ==
    /\ <>(output # None)
    /\ [](/\ n <= Len(file)
          /\ accounts = EngineAfter(SubSeq(file, 1, n)).accounts
          /\ transactions = EngineAfter(SubSeq(file, 1, n)).transactions)
    /\ [](output # None =>
            /\ n = Len(file)
            /\ output = Some(get_accounts(EngineAfter(file))))

(* A file whose first row does not parse and whose second fails            *)
(* validation has been read to its end, the deposit after them was applied *)
(* and the rows were written.                                              *)
C23_Witness ==
    /\ Len(file) = MaxRows
    /\ file[1] = ParseError
    /\ file[2] = Parsed(Rec("Deposit", 1, 1, None))
    /\ \E c \in DOMAIN accounts : accounts[c].available = MaxAmount
    /\ output # None
    /\ Len(output[1]) = 1

(* The rows written, none before process_transactions writes them.         *)
Written == IF output = None THEN <<>> ELSE output[1]

(* The rows written are those of the accounts as they are now: writing     *)
(* them has left available, held and locked of every account alone.        *)
RowsAreOfAccounts == output # None => Written = get_accounts(engine)

(* C24 as stated: in every row written total = available + held, and the   *)
(* rounding has not touched the balances of the accounts.                  *)
C24_RowTotalIsSumOfRowBalances ==
    /\ \A i \in DOMAIN Written :
          Written[i].total = Written[i].available + Written[i].held
    /\ RowsAreOfAccounts

(* C24 amended: in every row written total is the account's available +    *)
(* held rounded to 0.0001; it is within 0.0001 of the row's available +    *)
(* held, and equal to it when the account's available and held are         *)
(* multiples of 0.0001; the rounding has not touched the accounts.         *)
C24_RowTotalIsRoundedTotal ==
    /\ \A i \in DOMAIN Written :
          LET row == Written[i]
              a == accounts[row.client]
              diff == row.total - (row.available + row.held)
          IN  /\ row.total = round_dp(a.available + a.held)
              /\ diff \in {0 - UnitsPerDp4, 0, UnitsPerDp4}
              /\ (a.available % UnitsPerDp4 = 0 /\ a.held % UnitsPerDp4 = 0) => diff = 0
    /\ RowsAreOfAccounts

(* The row of an account was written whose available and held are both     *)
(* half of 0.0001 away from a multiple of it.                              *)
C24_Witness ==
    /\ output # None
    /\ \E c \in DOMAIN accounts :
          /\ 2 * (accounts[c].available % UnitsPerDp4) = UnitsPerDp4
          /\ 2 * (accounts[c].held % UnitsPerDp4) = UnitsPerDp4
====
